---- MODULE Spec2Model ----
(***************************************************************************)
(* A model of the CRUD engine of empirefox/reform: the Querier's commands  *)
(* (Insert, InsertColumns, InsertMulti, Update, UpdateColumns, Save,       *)
(* Delete), its selects of one row (SelectOneTo, SelectOneFrom, Reload)    *)
(* and of all rows of a cursor (NextRow, SelectAllFrom, FindAllFrom,       *)
(* FindAllFromPK), the column filter, the dialect strategy and the         *)
(* expansion of "$name" tokens that every statement given to Exec and      *)
(* Query passes through.                                                   *)
(*                                                                         *)
(* A statement is a sequence of tokens [k, s, n]; a connection call is     *)
(* logged with the statement and the arguments it was given.  The          *)
(* connection and the hooks are external: what they answer is drawn from   *)
(* small sets by the action that models the call.                          *)
(***************************************************************************)
EXTENDS Integers, Sequences, FiniteSets, TLC

VARIABLES
    dialect,  \* the Querier's Dialect, fixed at construction
    rec,      \* the caller's struct: [view, vals], vals aligned with the view's columns
    pc,       \* "ready": no call in progress; "returned": a call has just returned
    inp,      \* the arguments of the last call and what the collaborators answered
    old,      \* rec as it was when the last call started
    ret,      \* the error (or Nil, or a panic) the last call ended with
    calls,    \* the connection invocations of the last call, in order
    hooks,    \* the hook invocations of the last call, in order
    out       \* the structs the last call returned, in order

vars == <<dialect, rec, pc, inp, old, ret, calls, hooks, out>>

----------------------------------------------------------------------------
\* Bounds of the model.

MaxVal == 1      \* column values are 0..MaxVal, 0 being the zero value
MaxId == 2       \* identities the connection reports are 0..MaxId
MaxRows == 2     \* affected-row counts the connection reports are 0..MaxRows
MaxNames == 2    \* longest list of requested column names
MaxBatch == 2    \* longest InsertMulti batch
MaxCursor == 2   \* most rows a cursor yields

----------------------------------------------------------------------------
\* Errors.  One shape for all of them, so that any two can be compared.

Err(kind, n, cols) == [e |-> kind, n |-> n, cols |-> cols]

Nil == Err("nil", 0, {})
ErrNoRows == Err("ErrNoRows", 0, {})
ErrNoPK == Err("ErrNoPK", 0, {})

\* An error of the driver; n tells which primitive reported it.
DriverErr(n) == Err("driver", n, {})
\* The error of the hook invoked for the struct at position n of the input.
HookErr(n) == Err("hook", n, {})
Panic(what) == Err("panic:" \o what, 0, {})

IsPanic(e) == e.e \in {"panic:UPDATE", "panic:DELETE", "panic:method", "panic:nil"}

----------------------------------------------------------------------------
\* Tokens of a statement.

Tok(k, s, n) == [k |-> k, s |-> s, n |-> n]
Kw(s) == Tok("kw", s, 0)
\* The decimal text of n, standing where the statement has no "$" before it.
Text(n) == Tok("text", "", n)
\* "$" followed by a name: the named placeholder of a tail clause.
Named(s) == Tok("named", s, 0)

RECURSIVE Join(_, _)
Join(parts, sep) ==
    IF parts = <<>> THEN <<>>
    ELSE IF Len(parts) = 1 THEN parts[1]
    ELSE parts[1] \o <<sep>> \o Join(Tail(parts), sep)

----------------------------------------------------------------------------
\* Views and tables (the metadata the generator produces).  pk is the
\* position of the primary-key column, 0 for a view that is no table.

People == [ref |-> 1, name |-> "people", pk |-> 1,
           columns |-> <<"id", "name", "age">>,
           fields |-> <<"ID", "Name", "Age">>]
\* Another table object with the same name: equal by name, not by reference.
Persons == [ref |-> 2, name |-> "people", pk |-> 2,
            columns |-> <<"name", "id", "age">>,
            fields |-> <<"Name", "ID", "Age">>]
Report == [ref |-> 3, name |-> "report", pk |-> 0,
           columns |-> <<"name", "age">>,
           fields |-> <<"Name", "Age">>]

Views == <<People, Persons, Report>>

View(str) == Views[str.view]
Columns(view) == view.columns
PKColumnIndex(view) == view.pk
IsRecord(str) == View(str).pk # 0

HasCol(view, field) ==
    \E i \in DOMAIN view.columns : field \in {view.fields[i], view.columns[i]}

ToCol(view, field) ==
    IF HasCol(view, field)
    THEN view.columns[CHOOSE i \in DOMAIN view.columns :
                          field \in {view.fields[i], view.columns[i]}]
    ELSE field

Values(str) == str.vals
PKValue(str) == str.vals[PKColumnIndex(View(str))]
HasPK(str) == PKValue(str) # 0
SetPK(str, id) == [str EXCEPT !.vals[PKColumnIndex(View(str))] = id]

\* s[1..i-1] \o s[i+1..]: append(s[:pk], s[pk+1:]...)
Cut(s, i) == SubSeq(s, 1, i - 1) \o SubSeq(s, i + 1, Len(s))

----------------------------------------------------------------------------
\* Dialects.

LastInsertId == 0
Returning == 1
OutputInserted == 2

Limit == 0
SelectTop == 1

Postgresql == [ph |-> "$", quote |-> "dquote", method |-> Returning,
               limit |-> Limit]
Mssql == [ph |-> "?", quote |-> "bracket", method |-> OutputInserted,
          limit |-> SelectTop]
\* A dialect that takes the identity from the Exec result.
LastId == [ph |-> "?", quote |-> "backtick", method |-> LastInsertId,
           limit |-> Limit]

Dialects == {Postgresql, Mssql, LastId}

Placeholder(d, index) ==
    IF d.ph = "$" THEN Tok("ph", "$", index) ELSE Tok("ph", "?", 0)

Placeholders(d, start, count) ==
    [i \in 1..count |-> IF d.ph = "$" THEN Tok("ph", "$", start + i - 1)
                        ELSE Tok("ph", "?", 0)]

QuoteIdentifier(d, identifier) == Tok(d.quote, identifier, 0)

QualifiedView(d, view) == QuoteIdentifier(d, view.name)

\* os.Expand(query, view.ToCol): "$" and the name after it are replaced by
\* the mapping of the name.  A digit after "$" is a one-character name, and
\* ToCol gives back a name it does not know: "$2" becomes "2".
ExpandToken(t, view) ==
    IF t.k = "ph" /\ t.s = "$" THEN Text(t.n)
    ELSE IF t.k = "named" THEN Tok("text", ToCol(view, t.s), 0)
    ELSE t

Expand(query, view) == [i \in DOMAIN query |-> ExpandToken(query[i], view)]

----------------------------------------------------------------------------
\* Requested column names: d leading "$" characters before the text s.

Name(d, s) == [d |-> d, s |-> s]
TrimLeft(c) == c.s

NamePool == {Name(0, "name"), Name(1, "Age"), Name(0, "id"),
             Name(2, "bogus"), Name(0, "nope")}

NameLists == UNION {[1..n -> NamePool] : n \in 0..MaxNames}

ColumnsSet(view, columnsIn) ==
    {ToCol(view, TrimLeft(columnsIn[i])) : i \in DOMAIN columnsIn}

RECURSIVE SeqOfSet(_)
SeqOfSet(S) ==
    IF S = {} THEN <<>>
    ELSE LET x == CHOOSE y \in S : TRUE IN <<x>> \o SeqOfSet(S \ {x})

\* The loop over the table's columns: a requested column is taken out of the
\* set and appended with its value; the primary-key column stops an update.
RECURSIVE FilterLoop(_, _, _, _, _, _)
FilterLoop(i, set, columns, values, record, isUpdate) ==
    LET allColumns == Columns(View(record))
        pk == PKColumnIndex(View(record))
    IN  IF i > Len(allColumns)
        THEN [set |-> set, columns |-> columns, values |-> values, err |-> Nil]
        ELSE IF allColumns[i] \in set
        THEN IF isUpdate /\ i = pk
             THEN [set |-> set, columns |-> columns, values |-> values,
                   err |-> Err("pkcolumn", 0, {allColumns[i]})]
             ELSE FilterLoop(i + 1, set \ {allColumns[i]},
                             Append(columns, allColumns[i]),
                             Append(values, Values(record)[i]),
                             record, isUpdate)
        ELSE FilterLoop(i + 1, set, columns, values, record, isUpdate)

\* The filter reporting only one of the columns left in the set.
filteredColumnsAndValues_First(record, columnsIn, isUpdate) ==
    LET r == FilterLoop(1, ColumnsSet(View(record), columnsIn), <<>>, <<>>,
                        record, isUpdate)
    IN  IF r.err # Nil
        THEN [columns |-> r.columns, values |-> r.values, err |-> r.err]
        ELSE IF r.set # {}
        THEN [columns |-> SeqOfSet(r.set), values |-> r.values,
              err |-> Err("unexpected", 0, {CHOOSE c \in r.set : TRUE})]
        ELSE [columns |-> r.columns, values |-> r.values, err |-> Nil]

filteredColumnsAndValues(record, columnsIn, isUpdate) ==
    LET r == FilterLoop(1, ColumnsSet(View(record), columnsIn), <<>>, <<>>,
                        record, isUpdate)
    IN  IF r.err # Nil
        THEN [columns |-> r.columns, values |-> r.values, err |-> r.err]
        ELSE IF r.set # {}
        THEN [columns |-> SeqOfSet(r.set), values |-> r.values,
              err |-> Err("unexpected", 0, r.set)]
        ELSE [columns |-> r.columns, values |-> r.values, err |-> Nil]

----------------------------------------------------------------------------
\* What the collaborators answer.

\* A hook: the struct does not have it, or it succeeds, or it fails.
HookBehaviours == {"none", "ok", "fail"}

\* Exec: an error, or a result whose RowsAffected is an error or a count and
\* whose LastInsertId is an error or an identity.
ExecRows ==
    {[err |-> DriverErr(1), ra |-> 0, raerr |-> Nil, id |-> 0, iderr |-> Nil]}
    \cup {[err |-> Nil, ra |-> 0, raerr |-> DriverErr(2), id |-> 0, iderr |-> Nil]}
    \cup {[err |-> Nil, ra |-> n, raerr |-> Nil, id |-> 0, iderr |-> Nil] :
             n \in 0..MaxRows}

\* One connection invocation: the primitive, the statement, the arguments and
\* the accessors used on what it returned.
Call(fn, query, args, acc) ==
    [fn |-> fn, query |-> query, args |-> args, acc |-> acc]

\* What a command did: its result, its connection and hook invocations and
\* the struct as it leaves it.
Effect(r, c, h, str) == [ret |-> r, calls |-> c, hooks |-> h, rec |-> str]

----------------------------------------------------------------------------
\* UPDATE and DELETE by primary key.

SetList(columns, placeholders) ==
    Join([i \in DOMAIN columns |-> <<columns[i], Kw("="), placeholders[i]>>],
         Kw(","))

UpdateQuery(d, table, columns) ==
    LET quoted == [i \in DOMAIN columns |-> QuoteIdentifier(d, columns[i])]
        placeholders == Placeholders(d, 1, Len(columns))
    IN  <<Kw("UPDATE"), QualifiedView(d, table), Kw("SET")>>
        \o SetList(quoted, placeholders)
        \o <<Kw("WHERE"),
             QuoteIdentifier(d, Columns(table)[PKColumnIndex(table)]),
             Kw("="), Placeholder(d, Len(columns) + 1)>>

\* The postcondition without the check for more than one row.
RowsOutcome_Swallow(x, what) ==
    IF x.raerr # Nil THEN x.raerr
    ELSE IF x.ra = 0 THEN ErrNoRows
    ELSE Nil

\* The rows-affected postcondition shared by update and Delete.
RowsOutcome(x, what) ==
    IF x.raerr # Nil THEN x.raerr
    ELSE IF x.ra = 0 THEN ErrNoRows
    ELSE IF x.ra > 1 THEN Panic(what)
    ELSE Nil

update(d, record, columns, values, x) ==
    LET table == View(record)
        query == UpdateQuery(d, table, columns)
        args == Append(values, PKValue(record))
        stmt == Expand(query, table)
    IN  IF x.err # Nil
        THEN [ret |-> x.err, calls |-> <<Call("Exec", stmt, args, <<>>)>>]
        ELSE [ret |-> RowsOutcome(x, "UPDATE"),
              calls |-> <<Call("Exec", stmt, args, <<"RowsAffected">>)>>]

\* beforeUpdate that runs the hook before it looks at the primary key.
beforeUpdate_HookFirst(record, h) ==
    IF h = "fail"
    THEN [err |-> HookErr(1), hooks |-> <<[hook |-> "BeforeUpdate", at |-> 1]>>]
    ELSE IF ~HasPK(record) THEN [err |-> ErrNoPK, hooks |-> <<>>]
    ELSE IF h = "none" THEN [err |-> Nil, hooks |-> <<>>]
    ELSE [err |-> Nil, hooks |-> <<[hook |-> "BeforeUpdate", at |-> 1]>>]

beforeUpdate(record, h) ==
    IF ~HasPK(record) THEN [err |-> ErrNoPK, hooks |-> <<>>]
    ELSE IF h = "none" THEN [err |-> Nil, hooks |-> <<>>]
    ELSE [err |-> IF h = "fail" THEN HookErr(1) ELSE Nil,
          hooks |-> <<[hook |-> "BeforeUpdate", at |-> 1]>>]

DoUpdate(d, record, h, x) ==
    LET b == beforeUpdate(record, h)
        pk == PKColumnIndex(View(record))
    IN  IF b.err # Nil THEN Effect(b.err, <<>>, b.hooks, record)
        ELSE LET u == update(d, record, Cut(Columns(View(record)), pk),
                             Cut(Values(record), pk), x)
             IN  Effect(u.ret, u.calls, b.hooks, record)

DoUpdateColumns(d, record, columnsIn, h, x) ==
    LET b == beforeUpdate(record, h)
        f == filteredColumnsAndValues(record, columnsIn, TRUE)
    IN  IF b.err # Nil THEN Effect(b.err, <<>>, b.hooks, record)
        ELSE IF f.err # Nil THEN Effect(f.err, <<>>, b.hooks, record)
        ELSE IF Len(f.values) = 0
        THEN Effect(Err("nothing", 0, {}), <<>>, b.hooks, record)
        ELSE LET u == update(d, record, f.columns, f.values, x)
             IN  Effect(u.ret, u.calls, b.hooks, record)

DeleteQuery(d, table) ==
    <<Kw("DELETE"), Kw("FROM"), QualifiedView(d, table), Kw("WHERE"),
      QuoteIdentifier(d, Columns(table)[PKColumnIndex(table)]),
      Kw("="), Placeholder(d, 1)>>

DoDelete(d, record, x) ==
    LET table == View(record)
        stmt == Expand(DeleteQuery(d, table), table)
        args == <<PKValue(record)>>
    IN  IF ~HasPK(record) THEN Effect(ErrNoPK, <<>>, <<>>, record)
        ELSE IF x.err # Nil
        THEN Effect(x.err, <<Call("Exec", stmt, args, <<>>)>>, <<>>, record)
        ELSE Effect(RowsOutcome(x, "DELETE"),
                    <<Call("Exec", stmt, args, <<"RowsAffected">>)>>,
                    <<>>, record)

----------------------------------------------------------------------------
\* INSERT of one struct.

\* Exec of an INSERT, or QueryRow(...).Scan of the returned key: an error,
\* or a result whose LastInsertId is an error or an identity (the scanned
\* value, for QueryRow).
InsertAnswers ==
    {[err |-> DriverErr(1), ra |-> 1, raerr |-> Nil, id |-> 0, iderr |-> Nil]}
    \cup {[err |-> Nil, ra |-> 1, raerr |-> Nil, id |-> 0, iderr |-> DriverErr(3)]}
    \cup {[err |-> Nil, ra |-> 1, raerr |-> Nil, id |-> n, iderr |-> Nil] :
             n \in 0..MaxId}

Parens(tokens) == <<Kw("(")>> \o tokens \o <<Kw(")")>>

InsertQuery(d, view, isRecord, columns) ==
    LET quoted == [i \in DOMAIN columns |-> <<QuoteIdentifier(d, columns[i])>>]
        placeholders == Placeholders(d, 1, Len(columns))
        pkcol == QuoteIdentifier(d, Columns(view)[PKColumnIndex(view)])
    IN  <<Kw("INSERT"), Kw("INTO"), QualifiedView(d, view)>>
        \o Parens(Join(quoted, Kw(",")))
        \o (IF isRecord /\ d.method = OutputInserted
            THEN <<Kw("OUTPUT"), Kw("INSERTED."), pkcol>> ELSE <<>>)
        \o <<Kw("VALUES")>>
        \o Parens(Join([i \in DOMAIN placeholders |-> <<placeholders[i]>>],
                       Kw(",")))
        \o (IF isRecord /\ d.method = Returning
            THEN <<Kw("RETURNING"), pkcol>> ELSE <<>>)

\* insert that runs a plain Exec under every method and reads the identity
\* only from its result.
insert_ExecOnly(d, str, columns, values, x) ==
    LET view == View(str)
        isRecord == IsRecord(str)
        query == InsertQuery(d, view, isRecord, columns)
        exec(acc) == <<Call("Exec", Expand(query, view), values, acc)>>
    IN  IF x.err # Nil THEN [ret |-> x.err, calls |-> exec(<<>>), rec |-> str]
        ELSE IF ~isRecord \/ d.method # LastInsertId
        THEN [ret |-> Nil, calls |-> exec(<<>>), rec |-> str]
        ELSE IF x.iderr # Nil
        THEN [ret |-> x.iderr, calls |-> exec(<<"LastInsertId">>), rec |-> str]
        ELSE [ret |-> Nil, calls |-> exec(<<"LastInsertId">>),
              rec |-> SetPK(str, x.id)]

insert(d, str, columns, values, x) ==
    LET view == View(str)
        isRecord == IsRecord(str)
        query == InsertQuery(d, view, isRecord, columns)
        exec(acc) == <<Call("Exec", Expand(query, view), values, acc)>>
    IN  IF d.method = LastInsertId
        THEN IF x.err # Nil THEN [ret |-> x.err, calls |-> exec(<<>>), rec |-> str]
             ELSE IF ~isRecord THEN [ret |-> Nil, calls |-> exec(<<>>), rec |-> str]
             ELSE IF x.iderr # Nil
             THEN [ret |-> x.iderr, calls |-> exec(<<"LastInsertId">>), rec |-> str]
             ELSE [ret |-> Nil, calls |-> exec(<<"LastInsertId">>),
                   rec |-> SetPK(str, x.id)]
        ELSE IF d.method \in {Returning, OutputInserted}
        THEN IF isRecord
             THEN [ret |-> x.err,
                   calls |-> <<Call("QueryRow", query, values, <<"Scan">>)>>,
                   rec |-> IF x.err = Nil THEN SetPK(str, x.id) ELSE str]
             ELSE [ret |-> x.err, calls |-> exec(<<>>), rec |-> str]
        ELSE [ret |-> Panic("method"), calls |-> <<>>, rec |-> str]

\* beforeInsert that goes on after its hook has failed.
beforeInsert_Ignored(str, h) ==
    IF h = "none" THEN [err |-> Nil, hooks |-> <<>>]
    ELSE [err |-> Nil, hooks |-> <<[hook |-> "BeforeInsert", at |-> 1]>>]

beforeInsert(str, h) ==
    IF h = "none" THEN [err |-> Nil, hooks |-> <<>>]
    ELSE [err |-> IF h = "fail" THEN HookErr(1) ELSE Nil,
          hooks |-> <<[hook |-> "BeforeInsert", at |-> 1]>>]

DoInsert(d, str, h, x) ==
    LET b == beforeInsert(str, h)
        pk == PKColumnIndex(View(str))
        cut == IsRecord(str) /\ ~HasPK(str)
        values == IF cut THEN Cut(Values(str), pk) ELSE Values(str)
        columns == IF cut THEN Cut(Columns(View(str)), pk) ELSE Columns(View(str))
    IN  IF b.err # Nil THEN Effect(b.err, <<>>, b.hooks, str)
        ELSE LET r == insert(d, str, columns, values, x)
             IN  Effect(r.ret, r.calls, b.hooks, r.rec)

\* InsertColumns that validates the column list before it runs the hook.
DoInsertColumns_FilterFirst(d, str, columnsIn, h, x) ==
    IF ~IsRecord(str) THEN Effect(Panic("nil"), <<>>, <<>>, str)
    ELSE LET b == beforeInsert(str, h)
             f == filteredColumnsAndValues(str, columnsIn, FALSE)
         IN  IF f.err # Nil THEN Effect(f.err, <<>>, <<>>, str)
             ELSE IF b.err # Nil THEN Effect(b.err, <<>>, b.hooks, str)
             ELSE LET r == insert(d, str, f.columns, f.values, x)
                  IN  Effect(r.ret, r.calls, b.hooks, r.rec)

\* A struct that is no Record makes record nil: no hook is found on it and
\* the filter dereferences it.
DoInsertColumns(d, str, columnsIn, h, x) ==
    IF ~IsRecord(str) THEN Effect(Panic("nil"), <<>>, <<>>, str)
    ELSE LET b == beforeInsert(str, h)
             f == filteredColumnsAndValues(str, columnsIn, FALSE)
         IN  IF b.err # Nil THEN Effect(b.err, <<>>, b.hooks, str)
             ELSE IF f.err # Nil THEN Effect(f.err, <<>>, b.hooks, str)
             ELSE LET r == insert(d, str, f.columns, f.values, x)
                  IN  Effect(r.ret, r.calls, b.hooks, r.rec)

\* Save that takes every failure of the update for a missing row.
DoSave_InsertOnError(d, record, hu, xu, hi, xi) ==
    IF HasPK(record)
    THEN LET u == DoUpdate(d, record, hu, xu)
         IN  IF u.ret = Nil THEN u
             ELSE LET i == DoInsert(d, u.rec, hi, xi)
                  IN  Effect(i.ret, u.calls \o i.calls, u.hooks \o i.hooks, i.rec)
    ELSE DoInsert(d, record, hi, xi)

\* Update when there is a primary key, Insert when there is none or when the
\* update found no row.  A panic of Update goes through.
DoSave(d, record, hu, xu, hi, xi) ==
    IF HasPK(record)
    THEN LET u == DoUpdate(d, record, hu, xu)
         IN  IF u.ret # ErrNoRows THEN u
             ELSE LET i == DoInsert(d, u.rec, hi, xi)
                  IN  Effect(i.ret, u.calls \o i.calls, u.hooks \o i.hooks, i.rec)
    ELSE DoInsert(d, record, hi, xi)

----------------------------------------------------------------------------
\* INSERT of several structs with one statement.

\* Exec of the batched INSERT: an error or a result nobody reads.
MultiAnswers ==
    {[err |-> e, ra |-> 1, raerr |-> Nil, id |-> 0, iderr |-> Nil] :
        e \in {DriverErr(1), Nil}}

\* The comparison of the views by their names.
SameView_ByName(structs) ==
    \A i \in DOMAIN structs : View(structs[i]).name = View(structs[1]).name

SameView(structs) ==
    \A i \in DOMAIN structs : structs[i].view = structs[1].view

\* Every struct's hook runs; the first error is kept.
MultiHooks(structs, hs) ==
    SelectSeq([i \in DOMAIN structs |-> [hook |-> "BeforeInsert", at |-> i]],
              LAMBDA c : hs[c.at] # "none")

\* The hook pass keeping the last error instead of the first.
MultiHookErr_Last(structs, hs) ==
    IF \E i \in DOMAIN structs : hs[i] = "fail"
    THEN HookErr(CHOOSE i \in DOMAIN structs :
                    /\ hs[i] = "fail"
                    /\ \A j \in (i + 1)..Len(structs) : hs[j] # "fail")
    ELSE Nil

MultiHookErr(structs, hs) ==
    IF \E i \in DOMAIN structs : hs[i] = "fail"
    THEN HookErr(CHOOSE i \in DOMAIN structs :
                    /\ hs[i] = "fail"
                    /\ \A j \in 1..(i - 1) : hs[j] # "fail")
    ELSE Nil

SamePKPresence(structs) ==
    IsRecord(structs[1]) =>
        \A i \in DOMAIN structs : HasPK(structs[1]) = HasPK(structs[i])

RECURSIVE Concat(_)
Concat(parts) ==
    IF parts = <<>> THEN <<>> ELSE parts[1] \o Concat(Tail(parts))

MultiQuery(d, view, columns, n) ==
    LET quoted == [i \in DOMAIN columns |-> <<QuoteIdentifier(d, columns[i])>>]
        k == Len(columns)
        placeholders == Placeholders(d, 1, k * n)
        group(i) == Parens(Join([j \in 1..k |-> <<placeholders[k * (i - 1) + j]>>],
                                Kw(",")))
    IN  <<Kw("INSERT"), Kw("INTO"), QualifiedView(d, view)>>
        \o Parens(Join(quoted, Kw(",")))
        \o <<Kw("VALUES")>>
        \o Join([i \in 1..n |-> group(i)], Kw(","))

\* The statement and its execution, once the checks have passed.
MultiExec(d, structs, hs, x) ==
    LET view == View(structs[1])
        pk == PKColumnIndex(view)
        cut == IsRecord(structs[1]) /\ ~HasPK(structs[1])
        columns == IF cut THEN Cut(Columns(view), pk) ELSE Columns(view)
        values == Concat([i \in DOMAIN structs |->
                             IF cut THEN Cut(Values(structs[i]), pk)
                             ELSE Values(structs[i])])
        query == MultiQuery(d, view, columns, Len(structs))
    IN  [ret |-> x.err,
         calls |-> <<Call("Exec", Expand(query, view), values, <<>>)>>,
         hooks |-> MultiHooks(structs, hs)]

\* The check of the primary keys placed before the hooks.
MultiChecked_PKFirst(d, structs, hs, x) ==
    IF ~SamePKPresence(structs)
    THEN [ret |-> Err("pkpresence", 0, {}), calls |-> <<>>, hooks |-> <<>>]
    ELSE IF MultiHookErr(structs, hs) # Nil
    THEN [ret |-> MultiHookErr(structs, hs), calls |-> <<>>,
          hooks |-> MultiHooks(structs, hs)]
    ELSE MultiExec(d, structs, hs, x)

\* The hooks of the whole batch, then the check of the primary keys.
MultiChecked(d, structs, hs, x) ==
    IF MultiHookErr(structs, hs) # Nil
    THEN [ret |-> MultiHookErr(structs, hs), calls |-> <<>>,
          hooks |-> MultiHooks(structs, hs)]
    ELSE IF ~SamePKPresence(structs)
    THEN [ret |-> Err("pkpresence", 0, {}), calls |-> <<>>,
          hooks |-> MultiHooks(structs, hs)]
    ELSE MultiExec(d, structs, hs, x)

DoInsertMulti(d, structs, hs, x) ==
    IF Len(structs) = 0 THEN [ret |-> Nil, calls |-> <<>>, hooks |-> <<>>]
    ELSE IF ~SameView(structs)
    THEN [ret |-> Err("tables", 0, {}), calls |-> <<>>, hooks |-> <<>>]
    ELSE MultiChecked(d, structs, hs, x)

----------------------------------------------------------------------------
\* The single-row select behind Reload.

\* QueryRow(...).Scan(pointers...): no row, an error of the query, a
\* conversion error after n columns were stored, or the whole row stored.
ScanAnswers(view) ==
    LET cols == DOMAIN Columns(view)
        none == [i \in cols |-> 0]
    IN  {[err |-> e, row |-> none, n |-> 0] : e \in {ErrNoRows, DriverErr(4)}}
        \cup {[err |-> DriverErr(5), row |-> r, n |-> n] :
                 r \in [cols -> 0..MaxVal], n \in 1..(Len(Columns(view)) - 1)}
        \cup {[err |-> Nil, row |-> r, n |-> Len(Columns(view))] :
                 r \in [cols -> 0..MaxVal]}

Scan(str, y) ==
    [str EXCEPT !.vals = [i \in DOMAIN str.vals |->
                             IF i <= y.n THEN y.row[i] ELSE str.vals[i]]]

QualifiedColumns(d, view) ==
    Join([i \in DOMAIN Columns(view) |->
             <<QualifiedView(d, view), Kw("."),
               QuoteIdentifier(d, Columns(view)[i])>>],
         Kw(","))

selectQuery(d, view, tail, limit1) ==
    <<Kw("SELECT")>>
    \o (IF limit1 /\ d.limit = SelectTop THEN <<Kw("TOP 1")>> ELSE <<>>)
    \o QualifiedColumns(d, view)
    \o <<Kw("FROM"), QualifiedView(d, view)>>
    \o tail

DoSelectOneTo(d, str, tail, args, h, y) ==
    LET view == View(str)
        query == selectQuery(d, view, tail, TRUE)
        call == <<Call("QueryRow", Expand(query, view), args, <<"Scan">>)>>
    IN  IF y.err # Nil THEN Effect(y.err, call, <<>>, Scan(str, y))
        ELSE IF h = "none" THEN Effect(Nil, call, <<>>, Scan(str, y))
        ELSE Effect(IF h = "fail" THEN HookErr(1) ELSE Nil, call,
                    <<[hook |-> "AfterFind", at |-> 1]>>, Scan(str, y))

\* arg is never the untyped nil here: the tail always compares with it.
findTail(d, view, column, limit1) ==
    <<Kw("WHERE"), QuoteIdentifier(d, view), Kw("."),
      QuoteIdentifier(d, column), Kw("="), Placeholder(d, 1)>>
    \o (IF limit1 /\ d.limit = Limit THEN <<Kw("LIMIT 1")>> ELSE <<>>)

DoFindOneTo(d, str, column, arg, h, y) ==
    DoSelectOneTo(d, str, findTail(d, View(str).name, column, TRUE),
                  <<arg>>, h, y)

DoFindByPrimaryKeyTo(d, record, pk, h, y) ==
    LET table == View(record)
    IN  DoFindOneTo(d, record, Columns(table)[PKColumnIndex(table)], pk, h, y)

\* Reload that asks for a primary key first.
DoReload_Checked(d, record, h, y) ==
    IF ~HasPK(record) THEN Effect(ErrNoPK, <<>>, <<>>, record)
    ELSE DoFindByPrimaryKeyTo(d, record, PKValue(record), h, y)

DoReload(d, record, h, y) ==
    DoFindByPrimaryKeyTo(d, record, PKValue(record), h, y)

----------------------------------------------------------------------------
\* Selects that make their own structs, and the cursor.

NewStruct(v) == [view |-> v, vals |-> [i \in DOMAIN Views[v].columns |-> 0]]

DoSelectOneFrom(d, v, tail, args, h, y) ==
    LET r == DoSelectOneTo(d, NewStruct(v), tail, args, h, y)
    IN  [ret |-> r.ret, calls |-> r.calls, hooks |-> r.hooks,
         out |-> IF r.ret # Nil THEN <<>> ELSE <<r.rec>>]

\* What a cursor answers to one Next: no more rows (err is what Err then
\* reports), or a row whose Scan stores its first n columns and fails unless
\* it has stored them all.
NextAnswers(view, rows) ==
    LET none == [i \in DOMAIN Columns(view) |-> 0]
    IN  {[next |-> FALSE, err |-> e, row |-> none, n |-> 0] :
            e \in {Nil, DriverErr(6)}}
        \cup {[next |-> TRUE, err |-> DriverErr(5), row |-> r, n |-> n] :
                 r \in rows, n \in 1..(Len(Columns(view)) - 1)}
        \cup {[next |-> TRUE, err |-> Nil, row |-> r, n |-> Len(Columns(view))] :
                 r \in rows}

\* NextRow whose hook also runs on a struct the scan has failed on.
DoNextRow_HookAlways(str, h, a, at) ==
    IF ~a.next
    THEN [ret |-> IF a.err = Nil THEN ErrNoRows ELSE a.err, hooks |-> <<>>,
          rec |-> str, acc |-> <<"Next", "Err">>]
    ELSE IF h = "none"
    THEN [ret |-> a.err, hooks |-> <<>>, rec |-> Scan(str, a),
          acc |-> <<"Next", "Scan">>]
    ELSE [ret |-> IF h = "fail" THEN HookErr(at) ELSE a.err,
          hooks |-> <<[hook |-> "AfterFind", at |-> at]>>,
          rec |-> Scan(str, a), acc |-> <<"Next", "Scan">>]

\* at is the position of the row in the cursor; it labels what is logged.
DoNextRow(str, h, a, at) ==
    IF ~a.next
    THEN [ret |-> IF a.err = Nil THEN ErrNoRows ELSE a.err, hooks |-> <<>>,
          rec |-> str, acc |-> <<"Next", "Err">>]
    ELSE IF a.err # Nil
    THEN [ret |-> a.err, hooks |-> <<>>, rec |-> Scan(str, a),
          acc |-> <<"Next", "Scan">>]
    ELSE IF h = "none"
    THEN [ret |-> Nil, hooks |-> <<>>, rec |-> Scan(str, a),
          acc |-> <<"Next", "Scan">>]
    ELSE [ret |-> IF h = "fail" THEN HookErr(at) ELSE Nil,
          hooks |-> <<[hook |-> "AfterFind", at |-> at]>>,
          rec |-> Scan(str, a), acc |-> <<"Next", "Scan">>]

\* The rows of a cursor: two rows that differ.
CursorRows(view) ==
    {[i \in DOMAIN Columns(view) |-> MaxVal],
     [i \in DOMAIN Columns(view) |-> i % (MaxVal + 1)]}

\* A cursor yields whole rows and then an answer that is no whole row: the
\* end, an error, or a row whose Scan fails on its second column.
IsRow(a) == a.next /\ a.err = Nil

CursorScripts(view) ==
    LET answers == NextAnswers(view, CursorRows(view))
        rows == {a \in answers : IsRow(a)}
        last == {a \in answers :
                    /\ ~IsRow(a)
                    /\ a.next => (a.n = 1 /\ \A i \in DOMAIN a.row : a.row[i] = MaxVal)}
    IN  UNION {{s \o <<a>> : s \in [1..m -> rows], a \in last} :
               m \in 0..MaxCursor}

\* The structs of one view have the hook or have it not; a hook that fails
\* fails on the last whole row of a script of m answers.
HookScripts(m) ==
    {[i \in 1..m |-> "none"], [i \in 1..m |-> "ok"]}
    \cup (IF m < 2 THEN {}
          ELSE {[i \in 1..m |-> IF i = m - 1 THEN "fail" ELSE "ok"]})

\* The iteration of the script leaves the cursor open: a Scan or a hook
\* fails.
LeftOpen(s, hs) ==
    \/ s[Len(s)].next
    \/ \E i \in DOMAIN hs : hs[i] = "fail"

\* What the connection answers to Query (an error, or a cursor with its
\* script), what the hooks do and what Close answers on an open cursor.
CursorAnswers(view) ==
    {[qerr |-> DriverErr(1), script |-> <<>>, hs |-> <<>>, cerr |-> Nil]}
    \cup UNION {{[qerr |-> Nil, script |-> s, hs |-> hs, cerr |-> Nil] :
                    hs \in HookScripts(Len(s))} : s \in CursorScripts(view)}
    \cup UNION {{[qerr |-> Nil, script |-> s, hs |-> hs, cerr |-> DriverErr(7)] :
                    hs \in {h \in HookScripts(Len(s)) : LeftOpen(s, h)}} :
                s \in CursorScripts(view)}

\* Close of a cursor whose Next has returned false has nothing left to
\* close and reports nothing; on an open cursor it reports what it is told.
CloseRows(open, cerr) == IF open THEN cerr ELSE Nil

\* The loop of SelectAllFrom: a new struct for each NextRow, appended when
\* NextRow succeeds; ErrNoRows ends the loop without an error.
RECURSIVE AllLoop(_, _, _, _, _, _)
AllLoop(v, c, i, structs, hks, acc) ==
    LET r == DoNextRow(NewStruct(v), c.hs[i], c.script[i], i)
    IN  IF r.ret # Nil
        THEN [err |-> IF r.ret = ErrNoRows THEN Nil ELSE r.ret,
              structs |-> structs, hooks |-> hks \o r.hooks,
              acc |-> acc \o r.acc, open |-> c.script[i].next]
        ELSE AllLoop(v, c, i + 1, Append(structs, r.rec), hks \o r.hooks,
                     acc \o r.acc)

\* The loop giving up what it has materialized when the iteration fails.
SelectAllResult_Dropped(l, cerr) ==
    [err |-> IF l.err = Nil THEN CloseRows(l.open, cerr) ELSE l.err,
     structs |-> IF l.err = Nil THEN l.structs ELSE <<>>,
     acc |-> l.acc \o <<"Close">>]

\* The deferred Close: its error is returned when there is no other.
SelectAllResult(l, cerr) ==
    [err |-> IF l.err = Nil THEN CloseRows(l.open, cerr) ELSE l.err,
     structs |-> l.structs,
     acc |-> l.acc \o <<"Close">>]

\* SelectAllFrom that leaves the cursor to the garbage collector.
DoSelectAllFrom_NoClose(d, v, tail, args, c) ==
    LET view == Views[v]
        stmt == Expand(selectQuery(d, view, tail, FALSE), view)
    IN  IF c.qerr # Nil
        THEN [ret |-> c.qerr, calls |-> <<Call("Query", stmt, args, <<>>)>>,
              hooks |-> <<>>, out |-> <<>>]
        ELSE LET l == AllLoop(v, c, 1, <<>>, <<>>, <<>>)
             IN  [ret |-> l.err,
                  calls |-> <<Call("Query", stmt, args, l.acc)>>,
                  hooks |-> l.hooks, out |-> l.structs]

DoSelectAllFrom(d, v, tail, args, c) ==
    LET view == Views[v]
        stmt == Expand(selectQuery(d, view, tail, FALSE), view)
    IN  IF c.qerr # Nil
        THEN [ret |-> c.qerr, calls |-> <<Call("Query", stmt, args, <<>>)>>,
              hooks |-> <<>>, out |-> <<>>]
        ELSE LET l == AllLoop(v, c, 1, <<>>, <<>>, <<>>)
                 r == SelectAllResult(l, c.cerr)
             IN  [ret |-> r.err,
                  calls |-> <<Call("Query", stmt, args, r.acc)>>,
                  hooks |-> l.hooks, out |-> r.structs]

\* WHERE view.column IN (placeholders)
inTail(d, view, column, count) ==
    <<Kw("WHERE"), QualifiedView(d, view), Kw("."), QuoteIdentifier(d, column),
      Kw("IN")>>
    \o Parens(Join([i \in 1..count |-> <<Placeholders(d, 1, count)[i]>>],
                   Kw(",")))

DoFindAllFrom(d, v, column, args, c) ==
    DoSelectAllFrom(d, v, inTail(d, Views[v], column, Len(args)), args, c)

DoFindAllFromPK(d, v, args, c) ==
    IF Len(args) = 0
    THEN [ret |-> ErrNoPK, calls |-> <<>>, hooks |-> <<>>, out |-> <<>>]
    ELSE LET table == Views[v]
         IN  DoSelectAllFrom(d, v,
                 inTail(d, table, Columns(table)[PKColumnIndex(table)],
                        Len(args)),
                 args, c)

----------------------------------------------------------------------------
\* The state machine: the caller holds one struct and one Querier and makes
\* one call at a time.

NoInput == [op |-> "none"]

StructsOf(v) == {[view |-> v, vals |-> vs] : vs \in [DOMAIN Views[v].columns -> 0..MaxVal]}

Init ==
    /\ dialect \in Dialects
    /\ rec \in UNION {StructsOf(v) : v \in DOMAIN Views}
    /\ pc = "ready"
    /\ inp = NoInput
    /\ old = rec
    /\ ret = Nil
    /\ calls = <<>>
    /\ hooks = <<>>
    /\ out = <<>>

\* The call returns: its effect becomes the state.
Returns(in, eff) ==
    /\ pc' = "returned"
    /\ inp' = in
    /\ old' = rec
    /\ rec' = eff.rec
    /\ ret' = eff.ret
    /\ calls' = eff.calls
    /\ hooks' = eff.hooks
    /\ out' = IF "out" \in DOMAIN eff THEN eff.out ELSE <<>>
    /\ UNCHANGED dialect

Insert ==
    /\ pc = "ready"
    /\ \E h \in HookBehaviours, x \in InsertAnswers :
          Returns([op |-> "Insert", h |-> h, x |-> x],
                  DoInsert(dialect, rec, h, x))

InsertColumns ==
    /\ pc = "ready"
    /\ \E names \in NameLists, h \in HookBehaviours, x \in InsertAnswers :
          Returns([op |-> "InsertColumns", names |-> names, h |-> h, x |-> x],
                  DoInsertColumns(dialect, rec, names, h, x))

\* The batch is made of the caller's struct, of a struct of the same view
\* that differs in its primary key, and of a struct of another view.
Peer(str) ==
    IF IsRecord(str) THEN SetPK(str, IF HasPK(str) THEN 0 ELSE 1)
    ELSE [str EXCEPT !.vals[1] = 1 - str.vals[1]]

Stranger(str) ==
    LET v == (str.view % Len(Views)) + 1
    IN  [view |-> v, vals |-> [i \in DOMAIN Views[v].columns |-> 1]]

Batches(str) ==
    UNION {[1..n -> {str, Peer(str), Stranger(str)}] : n \in 0..MaxBatch}

InsertMulti ==
    /\ pc = "ready"
    /\ \E structs \in Batches(rec), x \in MultiAnswers :
          \E hs \in [DOMAIN structs -> HookBehaviours] :
             LET r == DoInsertMulti(dialect, structs, hs, x)
             IN  Returns([op |-> "InsertMulti", structs |-> structs,
                          hs |-> hs, x |-> x],
                         Effect(r.ret, r.calls, r.hooks, rec))

Reload ==
    /\ pc = "ready"
    /\ IsRecord(rec)
    /\ \E h \in HookBehaviours, y \in ScanAnswers(View(rec)) :
          Returns([op |-> "Reload", h |-> h, y |-> y],
                  DoReload(dialect, rec, h, y))

Update ==
    /\ pc = "ready"
    /\ IsRecord(rec)
    /\ \E h \in HookBehaviours, x \in ExecRows :
          Returns([op |-> "Update", h |-> h, x |-> x],
                  DoUpdate(dialect, rec, h, x))

UpdateColumns ==
    /\ pc = "ready"
    /\ IsRecord(rec)
    /\ \E names \in NameLists, h \in HookBehaviours, x \in ExecRows :
          Returns([op |-> "UpdateColumns", names |-> names, h |-> h, x |-> x],
                  DoUpdateColumns(dialect, rec, names, h, x))

\* hu and xu are what the update's hook and Exec answer, h and x what the
\* insert's do.
Save ==
    /\ pc = "ready"
    /\ IsRecord(rec)
    /\ \E hu \in HookBehaviours, xu \in ExecRows,
          h \in HookBehaviours, x \in InsertAnswers :
          Returns([op |-> "Save", hu |-> hu, xu |-> xu, h |-> h, x |-> x],
                  DoSave(dialect, rec, hu, xu, h, x))

Delete ==
    /\ pc = "ready"
    /\ IsRecord(rec)
    /\ \E x \in ExecRows :
          Returns([op |-> "Delete", x |-> x], DoDelete(dialect, rec, x))

\* The caller has taken the result; the Querier keeps nothing of the call.
Return ==
    /\ pc = "returned"
    /\ pc' = "ready"
    /\ inp' = NoInput
    /\ old' = rec
    /\ ret' = Nil
    /\ calls' = <<>>
    /\ hooks' = <<>>
    /\ out' = <<>>
    /\ UNCHANGED <<dialect, rec>>

\* The tail and the arguments the caller gives to a select.
WhereName(d) == <<Kw("WHERE"), Named("Name"), Kw("="), Placeholder(d, 1)>>

ArgLists == {<<>>, <<0, 1>>}

SelectOneTo ==
    /\ pc = "ready"
    /\ \E h \in HookBehaviours, y \in ScanAnswers(View(rec)) :
          Returns([op |-> "SelectOneTo", h |-> h, y |-> y],
                  DoSelectOneTo(dialect, rec, WhereName(dialect), <<1>>, h, y))

\* The selects below are given the view of the caller's struct.
SelectOneFrom ==
    /\ pc = "ready"
    /\ \E h \in HookBehaviours, y \in ScanAnswers(View(rec)) :
          LET r == DoSelectOneFrom(dialect, rec.view, WhereName(dialect),
                                   <<1>>, h, y)
          IN  Returns([op |-> "SelectOneFrom", h |-> h, y |-> y],
                      [ret |-> r.ret, calls |-> r.calls, hooks |-> r.hooks,
                       rec |-> rec, out |-> r.out])

\* The caller holds an open cursor and gives it with its struct.
NextRow ==
    /\ pc = "ready"
    /\ \E h \in HookBehaviours,
          a \in NextAnswers(View(rec), [DOMAIN rec.vals -> 0..MaxVal]) :
          LET r == DoNextRow(rec, h, a, 1)
          IN  Returns([op |-> "NextRow", h |-> h, a |-> a],
                      Effect(r.ret, <<>>, r.hooks, r.rec))

SelectAllFrom ==
    /\ pc = "ready"
    /\ \E c \in CursorAnswers(View(rec)) :
          LET r == DoSelectAllFrom(dialect, rec.view, WhereName(dialect),
                                   <<1>>, c)
          IN  Returns([op |-> "SelectAllFrom", c |-> c],
                      [ret |-> r.ret, calls |-> r.calls, hooks |-> r.hooks,
                       rec |-> rec, out |-> r.out])

FindAllFrom ==
    /\ pc = "ready"
    /\ \E c \in CursorAnswers(View(rec)), args \in ArgLists :
          LET r == DoFindAllFrom(dialect, rec.view, "name", args, c)
          IN  Returns([op |-> "FindAllFrom", c |-> c, args |-> args],
                      [ret |-> r.ret, calls |-> r.calls, hooks |-> r.hooks,
                       rec |-> rec, out |-> r.out])

FindAllFromPK ==
    /\ pc = "ready"
    /\ IsRecord(rec)
    /\ \E c \in CursorAnswers(View(rec)), args \in ArgLists :
          LET r == DoFindAllFromPK(dialect, rec.view, args, c)
          IN  Returns([op |-> "FindAllFromPK", c |-> c, args |-> args],
                      [ret |-> r.ret, calls |-> r.calls, hooks |-> r.hooks,
                       rec |-> rec, out |-> r.out])

Next ==
    \/ Insert
    \/ InsertColumns
    \/ InsertMulti
    \/ Reload
    \/ Update
    \/ UpdateColumns
    \/ Delete
    \/ Save
    \/ Return

Spec == Init /\ [][Next]_vars

\* The selects: the caller reads rows, one by one or all at once.
NextSelect ==
    \/ SelectOneTo
    \/ SelectOneFrom
    \/ NextRow
    \/ SelectAllFrom
    \/ FindAllFrom
    \/ FindAllFromPK
    \/ Return

SpecSelect == Init /\ [][NextSelect]_vars

----------------------------------------------------------------------------
\* The properties.

After(o) == pc = "returned" /\ inp.op = o

\* The requested name n names the i-th column of the view.
Matches(view, n, i) == n.s \in {view.fields[i], view.columns[i]}

\* The positions of the columns the names ask for, and the names that ask
\* for no column.
Requested(view, names) ==
    {i \in DOMAIN view.columns : \E k \in DOMAIN names : Matches(view, names[k], i)}
Unmatched(view, names) ==
    {names[k].s : k \in {k \in DOMAIN names :
                            \A i \in DOMAIN view.columns : ~Matches(view, names[k], i)}}

\* C1: an Insert of a record with no primary key that succeeds leaves in the
\* primary key the identity the connection reported, under each of the three
\* retrieval methods.
C1_InsertFillsKey ==
    (After("Insert") /\ IsRecord(old) /\ ~HasPK(old) /\ ret = Nil) =>
        /\ PKValue(rec) = inp.x.id
        /\ dialect.method = LastInsertId =>
              calls[1].fn = "Exec" /\ calls[1].acc = <<"LastInsertId">>
        /\ dialect.method \in {Returning, OutputInserted} =>
              calls[1].fn = "QueryRow" /\ calls[1].acc = <<"Scan">>

C1_Witness ==
    /\ After("Insert") /\ IsRecord(old) /\ ~HasPK(old) /\ ret = Nil
    /\ dialect.method = OutputInserted
    /\ inp.x.id = MaxId /\ PKValue(rec) = MaxId

\* C2: an Insert of a record whose primary key is set leaves that key as it
\* was, whatever identity the connection reports.
C2_InsertKeepsPresetKey ==
    (After("Insert") /\ IsRecord(old) /\ HasPK(old)) =>
        PKValue(rec) = PKValue(old)

\* C3: Update, UpdateColumns and Delete of a record with no primary key
\* return ErrNoPK and invoke the connection zero times.
C3_NoPKNoSQL ==
    (pc = "returned" /\ inp.op \in {"Update", "UpdateColumns", "Delete"}
        /\ ~HasPK(old)) =>
        ret = ErrNoPK /\ calls = <<>>

C3_Witness ==
    /\ After("UpdateColumns") /\ ~HasPK(old)
    /\ inp.h = "fail" /\ Len(inp.names) > 0
    /\ ret = ErrNoPK /\ calls = <<>>

\* C4 as stated: Reload of a record with no primary key fails with ErrNoPK
\* and invokes the connection zero times.
C4_ReloadNoPKNoSQL ==
    (After("Reload") /\ ~HasPK(old)) => ret = ErrNoPK /\ calls = <<>>

\* C4 amended: Reload of a record with no primary key makes no check of the
\* key: it issues exactly one QueryRow bound to the record's zero key and
\* returns what that query, or the post-fetch hook after it, returns.
C4_ReloadNoPKQueries ==
    (After("Reload") /\ ~HasPK(old)) =>
        /\ Len(calls) = 1
        /\ calls[1].fn = "QueryRow"
        /\ calls[1].args = <<PKValue(old)>>
        /\ ret # ErrNoPK
        /\ inp.y.err # Nil => ret = inp.y.err
        /\ inp.y.err = Nil => ret = IF inp.h = "fail" THEN HookErr(1) ELSE Nil

C4_Witness ==
    /\ After("Reload") /\ ~HasPK(old)
    /\ Len(calls) = 1 /\ calls[1].args = <<0>>
    /\ ret = ErrNoRows

\* C5: for Update, UpdateColumns and Delete of a record with a primary key
\* whose statement ran without an error of the driver, 0 affected rows give
\* ErrNoRows, 1 gives success and more than 1 a panic; and these commands
\* panic only when the reported count is greater than 1.
C5_RowsAffected ==
    (pc = "returned" /\ inp.op \in {"Update", "UpdateColumns", "Delete"}) =>
        LET ran == /\ HasPK(old) /\ Len(calls) = 1
                   /\ inp.x.err = Nil /\ inp.x.raerr = Nil
        IN  /\ (ran /\ inp.x.ra = 0) => ret = ErrNoRows
            /\ (ran /\ inp.x.ra = 1) => ret = Nil
            /\ (ran /\ inp.x.ra > 1) => IsPanic(ret)
            /\ IsPanic(ret) <=> (ran /\ inp.x.ra > 1)

C5_Witness ==
    /\ After("Delete") /\ HasPK(old) /\ Len(calls) = 1
    /\ inp.x.err = Nil /\ inp.x.raerr = Nil /\ inp.x.ra = MaxRows
    /\ IsPanic(ret)

\* The UPDATE statement C6 describes: the SET list over the columns at the
\* positions idx, each with the placeholder of its rank, and the predicate on
\* the primary-key column with the placeholder after the last of them.
C6_Statement(d, view, idx) ==
    <<Kw("UPDATE"), QualifiedView(d, view), Kw("SET")>>
    \o Join([k \in DOMAIN idx |->
                <<QuoteIdentifier(d, view.columns[idx[k]]), Kw("="),
                  Placeholder(d, k)>>], Kw(","))
    \o <<Kw("WHERE"), QuoteIdentifier(d, view.columns[view.pk]), Kw("="),
         Placeholder(d, Len(idx) + 1)>>

\* C6: UpdateColumns of a record with a primary key, given known names none
\* of which is the primary-key column, issues one UPDATE whose SET list is
\* the requested columns, each once, in table order, with their values, and
\* whose WHERE predicate is on the primary-key column with the placeholder of
\* index len(SET columns) + 1, bound last to the record's key; with the
\* primary-key column among the names it fails with a validation error and
\* runs no SQL.
C6_UpdateColumnsStatement ==
    (After("UpdateColumns") /\ HasPK(old) /\ inp.h # "fail") =>
        LET view == View(old)
            req == Requested(view, inp.names)
            idx == SelectSeq([i \in DOMAIN view.columns |-> i],
                             LAMBDA i : i \in req)
        IN  /\ (inp.names # <<>> /\ Unmatched(view, inp.names) = {}
                  /\ view.pk \notin req) =>
                  /\ Len(calls) = 1
                  /\ calls[1].fn = "Exec"
                  /\ calls[1].query = C6_Statement(dialect, view, idx)
                  /\ calls[1].args =
                        [k \in DOMAIN idx |-> old.vals[idx[k]]]
                        \o <<PKValue(old)>>
            /\ view.pk \in req =>
                  /\ calls = <<>>
                  /\ ret = Err("pkcolumn", 0, {view.columns[view.pk]})

C8_DifferentViewsRejected ==
    (After("InsertMulti")
        /\ \E i, j \in DOMAIN inp.structs :
              inp.structs[i].view # inp.structs[j].view) =>
        /\ ret = Err("tables", 0, {})
        /\ calls = <<>>
        /\ hooks = <<>>

\* Two table objects of the same name, the first struct's hook failing.
C8_Witness ==
    /\ After("InsertMulti") /\ Len(inp.structs) = 2
    /\ inp.structs[1].view # inp.structs[2].view
    /\ View(inp.structs[1]).name = View(inp.structs[2]).name
    /\ inp.hs[1] = "fail"
    /\ ret = Err("tables", 0, {}) /\ hooks = <<>> /\ calls = <<>>

\* The records of one table in the batch disagree on having a primary key.
MixedPK(structs) ==
    /\ Len(structs) > 0
    /\ \A i \in DOMAIN structs : structs[i].view = structs[1].view
    /\ IsRecord(structs[1])
    /\ \E i, j \in DOMAIN structs : HasPK(structs[i]) /\ ~HasPK(structs[j])

\* The hook invocations are those of the structs that have the hook, each
\* once, in input order.
HooksInOrder(hs) ==
    /\ Len(hooks) = Cardinality({i \in DOMAIN hs : hs[i] # "none"})
    /\ \A k \in DOMAIN hooks :
          hooks[k].hook = "BeforeInsert" /\ hs[hooks[k].at] # "none"
    /\ \A k \in 1..(Len(hooks) - 1) : hooks[k].at < hooks[k + 1].at

FirstFailing(hs) ==
    CHOOSE i \in DOMAIN hs : hs[i] = "fail" /\ \A j \in 1..(i - 1) : hs[j] # "fail"

C10_AllHooksRunFirstErrorWins ==
    (After("InsertMulti") /\ Len(inp.structs) > 0
        /\ \A i \in DOMAIN inp.structs :
              inp.structs[i].view = inp.structs[1].view) =>
        /\ HooksInOrder(inp.hs)
        /\ (\E i \in DOMAIN inp.hs : inp.hs[i] = "fail") =>
              ret = HookErr(FirstFailing(inp.hs)) /\ calls = <<>>

\* Both hooks fail: the second still runs and the first error is returned.
C10_Witness ==
    /\ After("InsertMulti") /\ Len(inp.structs) = 2
    /\ inp.hs[1] = "fail" /\ inp.hs[2] = "fail"
    /\ Len(hooks) = 2 /\ hooks[2].at = 2
    /\ ret = HookErr(1) /\ calls = <<>>

\* The batched INSERT C11 describes: the column list without the primary
\* key, then n groups of k placeholders whose indices run from 1 to n*k.
C11_Statement(d, view, n) ==
    LET columns == Cut(view.columns, view.pk)
        k == Len(columns)
    IN  <<Kw("INSERT"), Kw("INTO"), QualifiedView(d, view)>>
        \o Parens(Join([j \in 1..k |-> <<QuoteIdentifier(d, columns[j])>>],
                       Kw(",")))
        \o <<Kw("VALUES")>>
        \o Join([g \in 1..n |->
                    Parens(Join([j \in 1..k |->
                                    <<Placeholder(d, k * (g - 1) + j)>>],
                                Kw(",")))],
                Kw(","))

\* C11: InsertMulti of n >= 1 records of one table, none with a primary key,
\* whose hooks all succeed, invokes the connection exactly once, with Exec;
\* the statement has n groups of k placeholders (k the number of columns
\* without the primary key) whose indices, under a dialect that numbers
\* them, are 1..n*k in order; the arguments are the records' values without
\* the key, record after record; and no primary key is changed.
C11_InsertMultiStatement ==
    (After("InsertMulti") /\ Len(inp.structs) > 0
        /\ (\A i \in DOMAIN inp.structs :
               /\ inp.structs[i].view = inp.structs[1].view
               /\ IsRecord(inp.structs[i]) /\ ~HasPK(inp.structs[i])
               /\ inp.hs[i] # "fail")) =>
        LET view == View(inp.structs[1])
        IN  /\ Len(calls) = 1
            /\ calls[1].fn = "Exec"
            /\ calls[1].acc = <<>>
            /\ calls[1].query = C11_Statement(dialect, view, Len(inp.structs))
            /\ calls[1].args =
                  Concat([i \in DOMAIN inp.structs |->
                             Cut(inp.structs[i].vals, view.pk)])
            /\ rec = old

\* The positions in the call log of the statements that start with word.
Statements(word) == {k \in DOMAIN calls : calls[k].query[1] = Kw(word)}

\* Insert was entered: it ran its hook or issued its statement.
InsertEntered ==
    \/ Statements("INSERT") # {}
    \/ \E k \in DOMAIN hooks : hooks[k].hook = "BeforeInsert"

\* C13: Save of a record without a primary key only inserts (no UPDATE is
\* issued); Save of a record with one updates first, and an insert follows
\* if and only if that update reported ErrNoRows (it ran and affected zero
\* rows); a successful update, and an update that failed otherwise, is
\* returned as it is, with no INSERT.
C13_SaveUpdateThenInsert ==
    After("Save") =>
        LET noRows == /\ inp.hu # "fail" /\ inp.xu.err = Nil
                      /\ inp.xu.raerr = Nil /\ inp.xu.ra = 0
        IN  /\ Cardinality(Statements("UPDATE")) <= 1
            /\ Cardinality(Statements("INSERT")) <= 1
            /\ Statements("UPDATE") \cup Statements("INSERT") = DOMAIN calls
            /\ ~HasPK(old) =>
                  /\ Statements("UPDATE") = {}
                  /\ \A k \in DOMAIN hooks : hooks[k].hook = "BeforeInsert"
                  /\ InsertEntered
            /\ HasPK(old) =>
                  /\ inp.hu # "fail" => Statements("UPDATE") = {1}
                  /\ InsertEntered <=> noRows
                  /\ ~noRows =>
                        /\ Statements("INSERT") = {}
                        /\ inp.hu = "fail" => ret = HookErr(1) /\ calls = <<>>
                        /\ (inp.hu # "fail" /\ inp.xu.err # Nil) =>
                              ret = inp.xu.err
                        /\ (inp.hu # "fail" /\ inp.xu.err = Nil
                              /\ inp.xu.raerr # Nil) => ret = inp.xu.raerr
                        /\ (inp.hu # "fail" /\ inp.xu.err = Nil
                              /\ inp.xu.raerr = Nil /\ inp.xu.ra = 1) => ret = Nil
                        /\ (inp.hu # "fail" /\ inp.xu.err = Nil
                              /\ inp.xu.raerr = Nil /\ inp.xu.ra > 1) =>
                              IsPanic(ret)

\* The update finds no row and the insert that follows succeeds.
C13_Witness ==
    /\ After("Save") /\ HasPK(old)
    /\ inp.xu.err = Nil /\ inp.xu.raerr = Nil /\ inp.xu.ra = 0
    /\ Len(calls) = 2
    /\ Statements("UPDATE") = {1} /\ Statements("INSERT") = {2}
    /\ ret = Nil

\* The hook an operation runs before its statement.
HookOf(op) ==
    IF op \in {"Insert", "InsertColumns"} THEN "BeforeInsert" ELSE "BeforeUpdate"

\* C14: Insert, InsertColumns, Update and UpdateColumns of a record (with the
\* primary key an update needs) invoke the record's pre-insert or pre-update
\* hook exactly once if the record has it and not at all if it has not; when
\* the hook fails the operation returns the hook's error unchanged and the
\* connection is not invoked.
C14_HookOnceAndAborts ==
    (pc = "returned"
        /\ inp.op \in {"Insert", "InsertColumns", "Update", "UpdateColumns"}
        /\ IsRecord(old)
        /\ (inp.op \in {"Update", "UpdateColumns"} => HasPK(old))) =>
        /\ inp.h = "none" => hooks = <<>>
        /\ inp.h # "none" => hooks = <<[hook |-> HookOf(inp.op), at |-> 1]>>
        /\ inp.h = "fail" => ret = HookErr(1) /\ calls = <<>> /\ rec = old

\* The hook of an InsertColumns with a valid column list fails.
C14_Witness ==
    /\ After("InsertColumns") /\ IsRecord(old)
    /\ Len(inp.names) > 0 /\ Unmatched(View(old), inp.names) = {}
    /\ inp.h = "fail"
    /\ hooks = <<[hook |-> "BeforeInsert", at |-> 1]>>
    /\ ret = HookErr(1) /\ calls = <<>>

\* The call ended with an error of the validation of the column list.
ValidationError ==
    /\ pc = "returned" /\ inp.op \in {"InsertColumns", "UpdateColumns"}
    /\ IsRecord(old)
    /\ ret.e \in {"unexpected", "pkcolumn", "nothing"}

\* C16 as stated: in an InsertColumns or UpdateColumns that ends with a
\* validation error of the column list (unknown name, primary-key column in
\* an update, nothing left to update) no hook has been invoked.
C16_ValidationBeforeHook ==
    ValidationError => hooks = <<>>

\* C16 amended: the column list is validated after the hook.  In a call that
\* ends with a validation error the connection is not invoked and the record
\* is unchanged, but the hook of a record that has one has already been
\* invoked, once, and has succeeded; when the hook fails its error is
\* returned and the column list is not validated.
C16_ValidationAfterHook ==
    ValidationError =>
        /\ calls = <<>>
        /\ rec = old
        /\ inp.h # "fail"
        /\ inp.h = "none" => hooks = <<>>
        /\ inp.h = "ok" => hooks = <<[hook |-> HookOf(inp.op), at |-> 1]>>

\* An unknown name, after the pre-insert hook has run.
C16_Witness ==
    /\ After("InsertColumns") /\ IsRecord(old) /\ inp.h = "ok"
    /\ ret.e = "unexpected"
    /\ hooks = <<[hook |-> "BeforeInsert", at |-> 1]>>
    /\ calls = <<>>

\* The accessor was used on the result of some connection invocation.
Accessed(name) ==
    \E k \in DOMAIN calls : \E a \in DOMAIN calls[k].acc : calls[k].acc[a] = name

\* C17 as stated: in Insert and InsertColumns the LastInsertId accessor is
\* used only under the LastInsertId method; under Returning and
\* OutputInserted the INSERT is always issued with QueryRow, never with Exec,
\* and the returned value is scanned into the primary key.
C17_KeyRetrieval ==
    (pc = "returned" /\ inp.op \in {"Insert", "InsertColumns"}) =>
        /\ Accessed("LastInsertId") => dialect.method = LastInsertId
        /\ dialect.method \in {Returning, OutputInserted} =>
              \A k \in DOMAIN calls :
                 /\ calls[k].fn = "QueryRow"
                 /\ calls[k].acc = <<"Scan">>
                 /\ ret = Nil => PKValue(rec) = inp.x.id

\* C17 amended: the LastInsertId accessor is used only under the
\* LastInsertId method; under Returning and OutputInserted the INSERT of a
\* Record is always issued with QueryRow, never with Exec, and the returned
\* value is scanned into the primary key; the INSERT of a struct that is no
\* Record, which has no primary key, is issued with a plain Exec under every
\* method and nothing is read from its result.
C17_KeyRetrievalOfRecord ==
    (pc = "returned" /\ inp.op \in {"Insert", "InsertColumns"}) =>
        /\ Accessed("LastInsertId") => dialect.method = LastInsertId
        /\ (dialect.method \in {Returning, OutputInserted} /\ IsRecord(old)) =>
              \A k \in DOMAIN calls :
                 /\ calls[k].fn = "QueryRow"
                 /\ calls[k].acc = <<"Scan">>
                 /\ ret = Nil => PKValue(rec) = inp.x.id
        /\ ~IsRecord(old) =>
              \A k \in DOMAIN calls :
                 calls[k].fn = "Exec" /\ calls[k].acc = <<>>

\* InsertColumns of a record under Returning: one QueryRow, the key scanned.
C17_Witness ==
    /\ After("InsertColumns") /\ IsRecord(old)
    /\ dialect.method = Returning
    /\ Len(calls) = 1 /\ calls[1].fn = "QueryRow" /\ calls[1].acc = <<"Scan">>
    /\ ret = Nil /\ inp.x.id = MaxId /\ PKValue(rec) = MaxId

\* A select of all rows whose query gave a cursor.
AfterAll ==
    /\ pc = "returned"
    /\ inp.op \in {"SelectAllFrom", "FindAllFrom", "FindAllFromPK"}
    /\ calls # <<>>
    /\ inp.c.qerr = Nil

\* The i-th answer of the cursor is a row that is scanned and whose hook, if
\* any, succeeds.
ValidRow(i) == IsRow(inp.c.script[i]) /\ inp.c.hs[i] # "fail"

\* The number of valid rows before the first answer that is no valid row.
ValidRows ==
    Cardinality({i \in DOMAIN inp.c.script : \A j \in 1..i : ValidRow(j)})

\* The struct a row of the cursor is materialized into.
StructOf(i) == [view |-> old.view, vals |-> inp.c.script[i].row]

\* C12: SelectAllFrom (also when reached through FindAllFrom and
\* FindAllFromPK) over a cursor that yields m valid rows and then fails
\* returns exactly the m structs, in cursor order, and that error; over a
\* cursor that yields m rows and is exhausted it returns the m structs and
\* no error; it never returns ErrNoRows.
C12_PartialResults ==
    AfterAll =>
        LET m == ValidRows
            f == inp.c.script[m + 1]
        IN  /\ out = [i \in 1..m |-> StructOf(i)]
            /\ ret # ErrNoRows
            /\ (~f.next /\ f.err = Nil) => ret = Nil
            /\ ~IsRow(f) /\ f.err # Nil => ret = f.err
            /\ IsRow(f) => ret = HookErr(m + 1)

\* Two different rows, then an error of the cursor.
C12_Witness ==
    /\ AfterAll /\ inp.op = "SelectAllFrom"
    /\ Len(out) = MaxCursor /\ out[1] # out[2]
    /\ ret = DriverErr(6)

\* The hook invocations of a select of all rows: one for each scanned row,
\* in cursor order, when the structs have the hook.
AllHooks ==
    LET scanned == Cardinality({i \in DOMAIN inp.c.script :
                                   /\ IsRow(inp.c.script[i])
                                   /\ \A j \in 1..(i - 1) : ValidRow(j)})
    IN  SelectSeq([i \in 1..scanned |-> [hook |-> "AfterFind", at |-> i]],
                  LAMBDA k : inp.c.hs[k.at] # "none")

\* One-row selects: the hook runs once after a row is scanned, and never
\* otherwise.
OneRowHook ==
    /\ After("NextRow") =>
          hooks = IF IsRow(inp.a) /\ inp.h # "none"
                  THEN <<[hook |-> "AfterFind", at |-> 1]>> ELSE <<>>
    /\ (pc = "returned" /\ inp.op \in {"SelectOneTo", "SelectOneFrom"}) =>
          hooks = IF inp.y.err = Nil /\ inp.h # "none"
                  THEN <<[hook |-> "AfterFind", at |-> 1]>> ELSE <<>>

\* The hook of NextRow and of SelectOneTo fails: its error is returned and
\* the caller's struct holds the row.
FailedHookKeepsTarget ==
    /\ (After("NextRow") /\ IsRow(inp.a) /\ inp.h = "fail") =>
          ret = HookErr(1) /\ rec.vals = inp.a.row
    /\ (After("SelectOneTo") /\ inp.y.err = Nil /\ inp.h = "fail") =>
          ret = HookErr(1) /\ rec.vals = inp.y.row

\* C15 as stated: in NextRow, SelectOneTo, SelectOneFrom and SelectAllFrom
\* the post-fetch hook is invoked once for each row, after the row has been
\* scanned, and never without a row or after a failed scan; when it fails
\* its error is returned and the scanned row stays in the target, which the
\* caller has.
C15_HookAfterScanRowKept ==
    /\ OneRowHook
    /\ FailedHookKeepsTarget
    /\ (After("SelectOneFrom") /\ inp.y.err = Nil /\ inp.h = "fail") =>
          /\ ret = HookErr(1)
          /\ out = <<[view |-> old.view, vals |-> inp.y.row]>>
    /\ AfterAll =>
          /\ hooks = AllHooks
          /\ IsRow(inp.c.script[ValidRows + 1]) =>
                /\ ret = HookErr(ValidRows + 1)
                /\ Len(out) = ValidRows + 1
                /\ out[ValidRows + 1] = StructOf(ValidRows + 1)

\* C15 amended: the hook is invoked once for each row, after the row has
\* been scanned, and never without a row or after a failed scan; when it
\* fails its error is returned.  In NextRow and SelectOneTo the scanned row
\* stays in the caller's struct; SelectOneFrom returns no struct with the
\* error, and SelectAllFrom returns the structs of the rows before, without
\* the struct whose hook failed.
C15_HookAfterScanTargetKept ==
    /\ OneRowHook
    /\ FailedHookKeepsTarget
    /\ (After("SelectOneFrom") /\ inp.y.err = Nil /\ inp.h = "fail") =>
          ret = HookErr(1) /\ out = <<>>
    /\ AfterAll =>
          /\ hooks = AllHooks
          /\ IsRow(inp.c.script[ValidRows + 1]) =>
                /\ ret = HookErr(ValidRows + 1)
                /\ out = [i \in 1..ValidRows |-> StructOf(i)]

\* The hook of SelectOneTo fails on a row that changes the caller's struct.
C15_Witness ==
    /\ After("SelectOneTo") /\ inp.y.err = Nil /\ inp.h = "fail"
    /\ hooks = <<[hook |-> "AfterFind", at |-> 1]>>
    /\ ret = HookErr(1)
    /\ rec.vals = inp.y.row /\ rec # old

\* What was done with the cursor of the k-th connection invocation.
Closes(k) == {a \in DOMAIN calls[k].acc : calls[k].acc[a] = "Close"}

\* C18: SelectAllFrom, also when reached through FindAllFrom and
\* FindAllFromPK, issues at most one Query; the cursor of a Query that
\* succeeded is closed exactly once, as the last thing done with it, however
\* the iteration ends (rows exhausted, error of the cursor, error of Scan,
\* error of the hook); when the Query fails there is no cursor and nothing is
\* closed or read.
C18_CursorClosed ==
    (pc = "returned"
        /\ inp.op \in {"SelectAllFrom", "FindAllFrom", "FindAllFromPK"}) =>
        /\ Len(calls) <= 1
        /\ \A k \in DOMAIN calls :
              /\ calls[k].fn = "Query"
              /\ inp.c.qerr # Nil => calls[k].acc = <<>>
              /\ inp.c.qerr = Nil =>
                    Closes(k) = {Len(calls[k].acc)}

\* The hook fails on the second row of a FindAllFromPK: the cursor, still
\* open, is closed, and the error of Close is not the one returned.
C18_Witness ==
    /\ AfterAll /\ inp.op = "FindAllFromPK"
    /\ ret = HookErr(MaxCursor)
    /\ inp.c.cerr # Nil
    /\ Closes(1) = {Len(calls[1].acc)}

====
